---- MODULE Spec2Model ----
(***************************************************************************)
(* Model of the Cortex Analyst chat application (src/demo.py).             *)
(*                                                                         *)
(* The script main() is run once per UI event; a run is a walk through     *)
(* main's calls, one action per call.  The session state (st.session_state)*)
(* survives between runs.  The analyst API is an external party: a request *)
(* is in flight between the call and the reply, and the reply is any       *)
(* status with any body.                                                   *)
(*                                                                         *)
(* A run is not interrupted by a further event: an event is taken only    *)
(* when no run is in progress (pc = "idle"), and only on a widget the last *)
(* run rendered.  st.rerun() restarts the script with no event pending.    *)
(* An exception nothing catches ends the run where it is raised.           *)
(*                                                                         *)
(* The source enables one entry of AVAILABLE_SEMANTIC_MODELS_PATHS and     *)
(* keeps two more commented out; the list here has NumModels entries, so   *)
(* that the selectbox's on_change can happen.                              *)
(*                                                                         *)
(* Strings are sequences of tokens, so that a formatted string contains    *)
(* the values embedded in it and an Optional[str] is a sequence of at most *)
(* one string.                                                             *)
(***************************************************************************)
EXTENDS Integers, Sequences, FiniteSets, TLC

VARIABLES
    session_keys,                 \* the keys present in st.session_state
    messages,                     \* st.session_state.messages
    active_suggestion,            \* st.session_state.active_suggestion
    selected_semantic_model_path, \* st.session_state.selected_semantic_model_path
    fire_API_error_notify,        \* st.session_state["fire_API_error_notify"]
    pc,                           \* position of the script run
    trigger,                      \* the widget event that started the run
    prompt,                       \* process_user_input: its argument
    user_msg_index,               \* process_user_input: its local
    request,                      \* the request in flight to the analyst API
    resp,                         \* the reply of the analyst API being handled
    exception,                    \* the uncaught exception that ended the run
    rendered,                     \* what the last run put on the page
    cache,                        \* st.cache_data's memo of get_query_exec_result
    engine_calls,                 \* statements the warehouse engine has run
    api_requests,                 \* requests sent to the analyst API
    inputs_processed,             \* calls of process_user_input
    answered_with                 \* history: per turn of messages, the semantic
                                  \* model file of the request that produced it

vars == <<session_keys, messages, active_suggestion,
          selected_semantic_model_path, fire_API_error_notify, pc, trigger,
          prompt, user_msg_index, request, resp, exception, rendered,
          cache, engine_calls, api_requests, inputs_processed,
          answered_with>>

-----------------------------------------------------------------------------
(* Bounds *)

MaxMessages == 5      \* no new question is submitted beyond this length
MaxCycles == 3        \* no event is taken once this many inputs were processed
NumModels == 2        \* entries enabled in AVAILABLE_SEMANTIC_MODELS_PATHS
NumUserTexts == 1     \* distinct texts typed into the chat input
NumRequestIds == 2    \* distinct request ids the API hands out
NumStatements == 1    \* distinct SQL statements the analyst generates
MaxColumns == 3       \* columns of a query result
MaxRows == 1          \* rows of a query result

-----------------------------------------------------------------------------
(* Values *)

None == <<>>
Some(v) == <<v>>

Range(s) == {s[i] : i \in 1..Len(s)}

AVAILABLE_SEMANTIC_MODELS_PATHS == [i \in 1..NumModels |-> <<"model", ToString(i)>>]

BootstrapPrompt == <<"Que pregunta quieres hacer?">>

UserTexts == {<<"q", ToString(i)>> : i \in 1..NumUserTexts}

RequestIds == {<<"r", ToString(i)>> : i \in 1..NumRequestIds}

Text(t) == [type |-> "text", text |-> t]
Suggestions(l) == [type |-> "suggestions", suggestions |-> l]
Sql(s) == [type |-> "sql", statement |-> s]

\* The content lists the analyst returns: text only, text with suggested
\* questions, text with a generated statement.
Contents ==
    { <<Text(<<"a1">>)>>,
      <<Text(<<"a1">>), Suggestions(<< <<"s1">>, <<"s2">> >>)>>,
      <<Text(<<"a1">>), Sql(<<"select1">>)>> }
        \cup { <<Text(<<"a1">>), Sql(<<"select", ToString(i)>>)>> : i \in 2..NumStatements }

NoTrigger == [kind |-> "none"]
NoRequest == [sent |-> FALSE]
NoResponse == [received |-> FALSE]

-----------------------------------------------------------------------------
(* The session state as one value, and reset_session_state *)

Session ==
    [keys |-> session_keys,
     messages |-> messages,
     active_suggestion |-> active_suggestion,
     selected_semantic_model_path |-> selected_semantic_model_path,
     fire_API_error_notify |-> fire_API_error_notify]

SetSession(s) ==
    /\ session_keys' = s.keys
    /\ messages' = s.messages
    /\ active_suggestion' = s.active_suggestion
    /\ selected_semantic_model_path' = s.selected_semantic_model_path
    /\ fire_API_error_notify' = s.fire_API_error_notify

\* Variant: the pending suggestion survives the reset.
reset_keeping_suggestion(s) ==
    [s EXCEPT !.keys = @ \cup {"messages", "active_suggestion"},
              !.messages = <<>>]

\* Variant: only the latest exchange is dropped.
reset_dropping_last_exchange(s) ==
    [s EXCEPT !.keys = @ \cup {"messages", "active_suggestion"},
              !.messages = IF Len(@) > 2 THEN SubSeq(@, 1, Len(@) - 2) ELSE <<>>,
              !.active_suggestion = None]

\* Variant: the reset also withdraws a pending error notification.
reset_clearing_notification(s) ==
    [s EXCEPT !.keys = @ \cup {"messages", "active_suggestion"},
              !.messages = <<>>,
              !.active_suggestion = None,
              !.fire_API_error_notify = FALSE]

reset_session_state(s) ==
    [s EXCEPT !.keys = @ \cup {"messages", "active_suggestion"},
              !.messages = <<>>,
              !.active_suggestion = None]

-----------------------------------------------------------------------------
(* The analyst API's replies *)

Statuses == {200, 399, 400, 500}

ErrorCodes == {<<"e1">>}

ErrorTexts == {<<"m1">>}

\* {message: {content}, request_id}
SuccessBodies ==
    {[message |-> [content |-> c], request_id |-> r] : c \in Contents, r \in RequestIds}

\* {request_id, error_code, message}, message a JSON string
ErrorBodies ==
    {[request_id |-> r, error_code |-> e, message |-> [str |-> m]] :
        r \in RequestIds, e \in ErrorCodes, m \in ErrorTexts}

\* JSON objects that lack a field the code reads
PartialBodies ==
    {[message |-> [content |-> c]] : c \in {<<Text(<<"a1">>)>>}}
        \cup {[request_id |-> r] : r \in {<<"r", "1">>}}

Bodies == SuccessBodies \cup ErrorBodies \cup PartialBodies

\* resp["content"] is a string: either the serialisation of a JSON object or
\* something json.loads rejects.
ResponseContents == {[json |-> TRUE, value |-> b] : b \in Bodies} \cup {[json |-> FALSE]}

Responses ==
    {[received |-> TRUE, status |-> st, content |-> c] :
        st \in Statuses, c \in ResponseContents}

-----------------------------------------------------------------------------
(* get_analyst_response *)

Contains(s, t) == \E i \in 0..(Len(s) - Len(t)) : SubSeq(s, i + 1, i + Len(t)) = t

\* How the f-string renders a JSON value: a string as itself, an object by
\* its repr.
Format(v) == IF "str" \in DOMAIN v THEN v.str ELSE <<"{...}">>

RequestBody(msgs, path) ==
    [sent |-> TRUE, messages |-> msgs, semantic_model_file |-> <<"@">> \o path]

\* Variant: the boundary status 400 counts as a success.
IsErrorStatusAbove400(status) == ~(status <= 400)

IsErrorStatus(status) == ~(status < 400)

ErrorMsg(status, parsed_content) ==
    <<"An Analyst API error has occurred", "response code:", ToString(status),
      "request-id:">> \o parsed_content.request_id
        \o <<"error code:">> \o parsed_content.error_code
        \o <<"Message:">> \o Format(parsed_content.message)

\* Variant: an error status is raised as an exception instead of returned.
get_analyst_response_raising(r) ==
    IF ~r.content.json
    THEN [raised |-> "JSONDecodeError"]
    ELSE IF ~IsErrorStatus(r.status)
    THEN [raised |-> "none", response |-> r.content.value, error_msg |-> None]
    ELSE [raised |-> "HTTPError"]

\* The value returned, or the exception raised, once the API has replied r.
get_analyst_response(r) ==
    IF ~r.content.json
    THEN [raised |-> "JSONDecodeError"]
    ELSE LET parsed_content == r.content.value IN
         IF ~IsErrorStatus(r.status)
         THEN [raised |-> "none", response |-> parsed_content, error_msg |-> None]
         ELSE IF {"request_id", "error_code", "message"} \subseteq DOMAIN parsed_content
              THEN [raised |-> "none", response |-> parsed_content,
                    error_msg |-> Some(ErrorMsg(r.status, parsed_content))]
              ELSE [raised |-> "KeyError"]

-----------------------------------------------------------------------------
(* process_user_input *)

new_user_message(p) == [role |-> "user", content |-> <<Text(p)>>]

\* Variant: the turn is inserted at the front.
PrependTurn(msgs, turn) == <<turn>> \o msgs

\* st.session_state.messages.append(...), lines 108 and 131
AppendTurn(msgs, turn) == Append(msgs, turn)

\* Variant: only the first content block is kept.
success_message_first_block(response) ==
    [role |-> "analyst",
     content |-> <<response.message.content[1]>>,
     request_id |-> response.request_id]

\* Lines 119-123
success_message(response) ==
    [role |-> "analyst",
     content |-> response.message.content,
     request_id |-> response.request_id]

\* Lines 125-129
error_message(response, error_msg) ==
    [role |-> "analyst",
     content |-> <<Text(error_msg)>>,
     request_id |-> response.request_id]

\* Lines 118-130: the analyst message built from what get_analyst_response
\* returned, with the value the notification flag is left with.
analyst_message(result, s) ==
    IF result.raised # "none"
    THEN [raised |-> result.raised]
    ELSE LET response == result.response IN
         IF result.error_msg = None
         THEN IF "message" \notin DOMAIN response
              THEN [raised |-> "KeyError"]
              ELSE IF "str" \in DOMAIN response.message
              THEN [raised |-> "TypeError"]
              ELSE IF "content" \notin DOMAIN response.message
                      \/ "request_id" \notin DOMAIN response
              THEN [raised |-> "KeyError"]
              ELSE [raised |-> "none",
                    message |-> success_message(response),
                    session |-> s]
         ELSE [raised |-> "none",
               message |-> error_message(response, result.error_msg[1]),
               session |-> [s EXCEPT !.keys = @ \cup {"fire_API_error_notify"},
                                     !.fire_API_error_notify = TRUE]]

\* Lines 104-117, up to the request: the user turn is appended and shown, and
\* the request is sent with the messages as they are then.
ProcessUserInputCall(s, p) ==
    LET msgs == AppendTurn(s.messages, new_user_message(p)) IN
    /\ SetSession([s EXCEPT !.messages = msgs])
    /\ prompt' = Some(p)
    /\ user_msg_index' = Len(msgs) - 1
    /\ request' = RequestBody(msgs, s.selected_semantic_model_path)
    /\ api_requests' = api_requests + 1
    /\ inputs_processed' = inputs_processed + 1
    /\ answered_with' = Append(answered_with, None)
    /\ resp' = NoResponse
    /\ pc' = "api"

\* Variant: a reply with an error status is not handed on, the request is
\* sent again.
AnalystReplyRetrying(r) ==
    /\ pc = "api"
    /\ resp' = r
    /\ UNCHANGED <<prompt, user_msg_index, rendered, cache, engine_calls,
                   inputs_processed>>
    /\ IF IsErrorStatus(r.status)
       THEN /\ api_requests' = api_requests + 1
            /\ UNCHANGED <<request, trigger, exception, pc, session_keys, messages,
                           active_suggestion, selected_semantic_model_path,
                           fire_API_error_notify, answered_with>>
       ELSE /\ request' = NoRequest
            /\ trigger' = NoTrigger
            /\ UNCHANGED api_requests
            /\ LET built == analyst_message(get_analyst_response(r), Session) IN
               IF built.raised = "none"
               THEN /\ SetSession([built.session EXCEPT
                                      !.messages = AppendTurn(@, built.message)])
                    /\ answered_with' =
                            Append(answered_with, Some(request.semantic_model_file))
                    /\ exception' = "none"
                    /\ pc' = "main"
               ELSE /\ exception' = built.raised
                    /\ pc' = "idle"
                    /\ UNCHANGED <<session_keys, messages, active_suggestion,
                                   selected_semantic_model_path, fire_API_error_notify,
                                   answered_with>>

\* Lines 117-132, from the reply on: the analyst turn is appended and the
\* script is rerun, or an exception leaves the run.
AnalystReply(r) ==
    /\ pc = "api"
    /\ resp' = r
    /\ request' = NoRequest
    /\ trigger' = NoTrigger
    /\ UNCHANGED <<prompt, user_msg_index, rendered, cache, engine_calls,
                   api_requests, inputs_processed>>
    /\ LET built == analyst_message(get_analyst_response(r), Session) IN
       IF built.raised = "none"
       THEN /\ SetSession([built.session EXCEPT !.messages = AppendTurn(@, built.message)])
            /\ answered_with' = Append(answered_with, Some(request.semantic_model_file))
            /\ exception' = "none"
            /\ pc' = "main"
       ELSE /\ exception' = built.raised
            /\ pc' = "idle"
            /\ UNCHANGED <<session_keys, messages, active_suggestion,
                           selected_semantic_model_path, fire_API_error_notify,
                           answered_with>>

-----------------------------------------------------------------------------
(* get_query_exec_result, display_sql_query, display_charts_tab *)

Columns(k) == [i \in 1..k |-> <<"c", ToString(i)>>]

AllColumns == Range(Columns(MaxColumns))

\* What session.sql(query).to_pandas() does: it returns a table or raises
\* SnowparkSQLException.
EngineOutcomes ==
    {[ok |-> TRUE, df |-> [columns |-> Columns(k), rows |-> n]] :
        k \in 1..MaxColumns, n \in 0..MaxRows}
        \cup {[ok |-> FALSE, error |-> <<"sql error">>]}

\* Variant: the except branch returns an empty table beside the error text.
query_result_with_empty_table(outcome) ==
    IF outcome.ok
    THEN [df |-> Some(outcome.df), err_msg |-> None]
    ELSE [df |-> Some([columns |-> <<>>, rows |-> 0]), err_msg |-> Some(outcome.error)]

\* Lines 239-243
query_result(outcome) ==
    IF outcome.ok
    THEN [df |-> Some(outcome.df), err_msg |-> None]
    ELSE [df |-> None, err_msg |-> Some(outcome.error)]

\* Variant: no memo, the function body runs at every call.
is_cached_never(memo, query) == FALSE

\* Line 224: st.cache_data holds a result for the statement.
is_cached(memo, query) == query \in DOMAIN memo

\* Line 224: the memo once the result of the statement is stored.
store(memo, query, result) ==
    [q \in DOMAIN memo \cup {query} |-> IF q = query THEN result ELSE memo[q]]

\* Lines 224-243: the call get_query_exec_result(query) with the memo and the
\* engine's log of runs as they are, the engine answering outcome if asked.
get_query_exec_result(memo, calls, query, outcome) ==
    IF is_cached(memo, query)
    THEN [result |-> memo[query], cache |-> memo, calls |-> calls]
    ELSE [result |-> query_result(outcome),
          cache |-> store(memo, query, query_result(outcome)),
          calls |-> Append(calls, query)]

\* Variant: the check for an empty result is missing.
is_empty_never(df) == FALSE

\* Line 268: df.empty
is_empty(df) == df.rows = 0 \/ Len(df.columns) = 0

\* Variant: the Y axis is offered every column.
y_options_all(all_cols_set, x_col) == all_cols_set

\* Line 298
y_options(all_cols_set, x_col) == all_cols_set \ {x_col}

\* Lines 281-311, with the columns the user has selected in the two
\* selectboxes.
display_charts_tab(df, x_col, y_col) ==
    IF Len(df.columns) >= 2
    THEN [kind |-> "axes",
          x_options |-> Range(df.columns), x_col |-> x_col,
          y_options |-> y_options(Range(df.columns), x_col), y_col |-> y_col]
    ELSE [kind |-> "notice", text |-> "Al menos 2 columnas requeridas"]

\* Lines 261-278: what the "Resultados" expander shows for a result.
display_sql_query(result, x_col, y_col) ==
    IF result.df = None
    THEN [kind |-> "error", text |-> <<"Could not execute generated SQL query. Error:">>
                                        \o result.err_msg[1]]
    ELSE IF is_empty(result.df[1])
    THEN [kind |-> "nodata", text |-> "Query returned no data"]
    ELSE [kind |-> "tabs", data_tab |-> result.df[1],
          chart_tab |-> display_charts_tab(result.df[1], x_col, y_col)]

\* A selection is one the selectboxes can return for the view.
SelectionFits(view, x_col, y_col) ==
    IF view.kind = "tabs" /\ view.chart_tab.kind = "axes"
    THEN x_col \in view.chart_tab.x_options /\ y_col \in view.chart_tab.y_options
    ELSE x_col = Columns(1)[1] /\ y_col = Columns(1)[1]

\* The SQL blocks of the messages, in the order display_conversation meets
\* them: message index and statement.
RECURSIVE SqlBlocksFrom(_, _, _)
SqlBlocksFrom(msgs, i, j) ==
    IF i > Len(msgs) THEN <<>>
    ELSE IF j > Len(msgs[i].content) THEN SqlBlocksFrom(msgs, i + 1, 1)
    ELSE IF msgs[i].content[j].type = "sql"
    THEN <<[mi |-> i - 1, statement |-> msgs[i].content[j].statement]>>
            \o SqlBlocksFrom(msgs, i, j + 1)
    ELSE SqlBlocksFrom(msgs, i, j + 1)

SqlBlocks(msgs) == SqlBlocksFrom(msgs, 1, 1)

\* Lines 216-218 over the whole conversation: the blocks from the k-th on are
\* shown one after the other; answers[k] is what the engine answers if it is
\* asked for block k, selections[k] the columns selected in its chart.
RECURSIVE RenderSql(_, _, _, _, _, _)
RenderSql(blocks, k, memo, calls, answers, selections) ==
    IF k > Len(blocks)
    THEN [cache |-> memo, calls |-> calls, views |-> <<>>, fits |-> TRUE]
    ELSE LET got == get_query_exec_result(memo, calls, blocks[k].statement, answers[k])
             view == display_sql_query(got.result, selections[k][1], selections[k][2])
             rest == RenderSql(blocks, k + 1, got.cache, got.calls, answers, selections)
         IN [cache |-> rest.cache,
             calls |-> rest.calls,
             views |-> <<[mi |-> blocks[k].mi, statement |-> blocks[k].statement,
                          result |-> got.result, view |-> view]>> \o rest.views,
             fits |-> rest.fits
                        /\ SelectionFits(view, selections[k][1], selections[k][2])]

-----------------------------------------------------------------------------
(* main, one action per call *)

NothingRendered ==
    [sidebar |-> FALSE, chat |-> FALSE, buttons |-> {}, toast |-> FALSE, sql |-> <<>>]

\* Lines 35-37: first-use initialisation, then show_header_and_sidebar with
\* its clear-history button.
MainHeader ==
    /\ pc = "main"
    /\ LET s1 == IF "messages" \notin session_keys
                 THEN reset_session_state(Session) ELSE Session
           s2 == [s1 EXCEPT !.keys = @ \cup {"selected_semantic_model_path"}]
           s3 == IF trigger.kind = "clear" THEN reset_session_state(s2) ELSE s2
       IN /\ SetSession(s3)
          /\ answered_with' = SubSeq(answered_with, 1, Len(s3.messages))
    /\ rendered' = [NothingRendered EXCEPT !.sidebar = TRUE]
    /\ exception' = "none"
    /\ prompt' = None
    /\ user_msg_index' = -1
    /\ request' = NoRequest
    /\ resp' = NoResponse
    /\ pc' = "seed"
    /\ UNCHANGED <<trigger, cache, engine_calls, api_requests, inputs_processed>>

\* Variant: the conversation is never seeded.
needs_bootstrap_never(msgs) == FALSE

\* Line 38
needs_bootstrap(msgs) == Len(msgs) = 0

\* Lines 38-39.
MainSeed ==
    /\ pc = "seed"
    /\ IF needs_bootstrap(messages)
       THEN ProcessUserInputCall(Session, BootstrapPrompt)
       ELSE /\ pc' = "display"
            /\ UNCHANGED <<session_keys, messages, active_suggestion,
                           selected_semantic_model_path, fire_API_error_notify,
                           prompt, user_msg_index, request, resp,
                           api_requests, inputs_processed, answered_with>>
    /\ UNCHANGED <<trigger, exception, rendered, cache, engine_calls>>

\* The suggestion buttons display_message draws for the messages: the key
\* (message index, suggestion index) and the label.
SuggestionButtons(msgs) ==
    {[mi |-> i - 1, si |-> k - 1, text |-> msgs[i].content[j].suggestions[k]] :
        <<i, j, k>> \in
            {t \in (1..Len(msgs)) \X (1..2) \X (1..2) :
                /\ t[2] <= Len(msgs[t[1]].content)
                /\ msgs[t[1]].content[t[2]].type = "suggestions"
                /\ t[3] <= Len(msgs[t[1]].content[t[2]].suggestions)}}

\* Line 40: display_conversation.  The button that was clicked returns True
\* and stores its label.
DisplayConversation ==
    /\ pc = "display"
    /\ LET buttons == SuggestionButtons(messages)
           clicked == {b \in buttons : /\ trigger.kind = "suggestion"
                                       /\ trigger.key = <<b.mi, b.si>>}
           blocks == SqlBlocks(messages)
       IN /\ active_suggestion' =
                IF clicked = {} THEN active_suggestion
                ELSE Some((CHOOSE b \in clicked : TRUE).text)
          /\ \E answers \in [1..Len(blocks) -> EngineOutcomes],
                selections \in [1..Len(blocks) -> AllColumns \X AllColumns] :
                LET shown == RenderSql(blocks, 1, cache, engine_calls, answers, selections)
                IN /\ shown.fits
                   /\ cache' = shown.cache
                   /\ engine_calls' = shown.calls
                   /\ rendered' = [rendered EXCEPT !.buttons = buttons,
                                                   !.sql = shown.views]
    /\ pc' = "inputs"
    /\ UNCHANGED <<session_keys, messages, selected_semantic_model_path,
                   fire_API_error_notify, trigger, prompt, user_msg_index,
                   request, resp, exception, api_requests, inputs_processed,
                   answered_with>>

\* Variant: the suggestion is read but left in place.
keep_active_suggestion(s) == s

\* Line 84
clear_active_suggestion(s) == [s EXCEPT !.active_suggestion = None]

\* Line 41: handle_user_inputs.
HandleUserInputs ==
    /\ pc = "inputs"
    /\ rendered' = [rendered EXCEPT !.chat = TRUE]
    /\ IF trigger.kind = "chat"
       THEN ProcessUserInputCall(Session, trigger.text)
       ELSE IF active_suggestion # None
       THEN LET suggestion == active_suggestion[1] IN
            ProcessUserInputCall(clear_active_suggestion(Session), suggestion)
       ELSE /\ pc' = "notify"
            /\ UNCHANGED <<session_keys, messages, active_suggestion,
                           selected_semantic_model_path, fire_API_error_notify,
                           prompt, user_msg_index, request, resp,
                           api_requests, inputs_processed, answered_with>>
    /\ UNCHANGED <<trigger, exception, cache, engine_calls>>

\* Line 89: st.session_state.get("fire_API_error_notify")
notification_due(keys, flag) == "fire_API_error_notify" \in keys /\ flag

\* Variant: the flag is left as it is once the toast is shown.
flag_left_after_toast(flag) == flag

\* Line 91
flag_after_toast(flag) == FALSE

\* Line 42: handle_error_notifications, and the end of the run.
HandleErrorNotifications ==
    /\ pc = "notify"
    /\ IF notification_due(session_keys, fire_API_error_notify)
       THEN /\ rendered' = [rendered EXCEPT !.toast = TRUE]
            /\ fire_API_error_notify' = flag_after_toast(fire_API_error_notify)
       ELSE UNCHANGED <<rendered, fire_API_error_notify>>
    /\ pc' = "idle"
    /\ trigger' = NoTrigger
    /\ UNCHANGED <<session_keys, messages, active_suggestion,
                   selected_semantic_model_path, prompt, user_msg_index,
                   request, resp, exception, cache, engine_calls,
                   api_requests, inputs_processed, answered_with>>

-----------------------------------------------------------------------------
(* The user's events, each starting a run *)

CanAsk == Len(messages) + 2 <= MaxMessages

\* An event that makes the script process an input is taken only while the
\* count of processed inputs is below its bound.
WithinBudget == inputs_processed < MaxCycles

SubmitChat(t) ==
    /\ pc = "idle"
    /\ rendered.chat
    /\ CanAsk
    /\ WithinBudget
    /\ trigger' = [kind |-> "chat", text |-> t]
    /\ pc' = "main"
    /\ UNCHANGED <<session_keys, messages, active_suggestion,
                   selected_semantic_model_path, fire_API_error_notify,
                   prompt, user_msg_index, request, resp, exception, rendered,
                   cache, engine_calls, api_requests, inputs_processed,
                   answered_with>>

ClickSuggestion(b) ==
    /\ pc = "idle"
    /\ b \in rendered.buttons
    /\ CanAsk
    /\ WithinBudget
    /\ trigger' = [kind |-> "suggestion", key |-> <<b.mi, b.si>>]
    /\ pc' = "main"
    /\ UNCHANGED <<session_keys, messages, active_suggestion,
                   selected_semantic_model_path, fire_API_error_notify,
                   prompt, user_msg_index, request, resp, exception, rendered,
                   cache, engine_calls, api_requests, inputs_processed,
                   answered_with>>

ClickClear ==
    /\ pc = "idle"
    /\ rendered.sidebar
    /\ WithinBudget
    /\ trigger' = [kind |-> "clear"]
    /\ pc' = "main"
    /\ UNCHANGED <<session_keys, messages, active_suggestion,
                   selected_semantic_model_path, fire_API_error_notify,
                   prompt, user_msg_index, request, resp, exception, rendered,
                   cache, engine_calls, api_requests, inputs_processed,
                   answered_with>>

\* Variant: the selectbox has no on_change.
on_change_missing(s) == s

\* Line 66
on_change(s) == reset_session_state(s)

\* The selectbox stores the new value and runs on_change=reset_session_state
\* before the script is run.
ChangeModel(m) ==
    /\ pc = "idle"
    /\ rendered.sidebar
    /\ WithinBudget
    /\ m # selected_semantic_model_path
    /\ LET s1 == on_change([Session EXCEPT !.selected_semantic_model_path = m])
       IN /\ SetSession(s1)
          /\ answered_with' = SubSeq(answered_with, 1, Len(s1.messages))
    /\ trigger' = NoTrigger
    /\ pc' = "main"
    /\ UNCHANGED <<prompt, user_msg_index, request, resp, exception, rendered,
                   cache, engine_calls, api_requests, inputs_processed>>

\* A change in one of the selectboxes of a chart tab (X axis, Y axis, chart
\* type) reruns the script; the selection is read when the chart is drawn.
ChangeChartSelection ==
    /\ pc = "idle"
    /\ \E k \in 1..Len(rendered.sql) :
            /\ rendered.sql[k].view.kind = "tabs"
            /\ rendered.sql[k].view.chart_tab.kind = "axes"
    /\ trigger' = [kind |-> "chart"]
    /\ pc' = "main"
    /\ UNCHANGED <<session_keys, messages, active_suggestion,
                   selected_semantic_model_path, fire_API_error_notify,
                   prompt, user_msg_index, request, resp, exception, rendered,
                   cache, engine_calls, api_requests, inputs_processed,
                   answered_with>>

-----------------------------------------------------------------------------
(* The specification *)

Init ==
    /\ session_keys = {}
    /\ messages = <<>>
    /\ active_suggestion = None
    /\ selected_semantic_model_path = AVAILABLE_SEMANTIC_MODELS_PATHS[1]
    /\ fire_API_error_notify = FALSE
    /\ pc = "main"
    /\ trigger = NoTrigger
    /\ prompt = None
    /\ user_msg_index = -1
    /\ request = NoRequest
    /\ resp = NoResponse
    /\ exception = "none"
    /\ rendered = NothingRendered
    /\ cache = <<>>
    /\ engine_calls = <<>>
    /\ api_requests = 0
    /\ inputs_processed = 0
    /\ answered_with = <<>>

Next ==
    \/ MainHeader
    \/ MainSeed
    \/ DisplayConversation
    \/ HandleUserInputs
    \/ HandleErrorNotifications
    \/ \E r \in Responses : AnalystReply(r)
    \/ \E t \in UserTexts : SubmitChat(t)
    \/ \E b \in rendered.buttons : ClickSuggestion(b)
    \/ ClickClear
    \/ \E m \in Range(AVAILABLE_SEMANTIC_MODELS_PATHS) : ChangeModel(m)
    \/ ChangeChartSelection

Spec == Init /\ [][Next]_vars

\* The replies that are parseable and carry the fields the code reads for
\* their status.
WellFormed(r) ==
    /\ r.content.json
    /\ \/ r.status < 400 /\ r.content.value \in SuccessBodies
       \/ r.status >= 400 /\ r.content.value \in ErrorBodies

WellFormedResponses == {r \in Responses : WellFormed(r)}

\* The program with an analyst API that sends well-formed replies only.
NextWellFormed ==
    \/ MainHeader
    \/ MainSeed
    \/ DisplayConversation
    \/ HandleUserInputs
    \/ HandleErrorNotifications
    \/ \E r \in WellFormedResponses : AnalystReply(r)
    \/ \E t \in UserTexts : SubmitChat(t)
    \/ \E b \in rendered.buttons : ClickSuggestion(b)
    \/ ClickClear
    \/ \E m \in Range(AVAILABLE_SEMANTIC_MODELS_PATHS) : ChangeModel(m)
    \/ ChangeChartSelection

SpecWellFormed == Init /\ [][NextWellFormed]_vars

-----------------------------------------------------------------------------
(* Properties *)

Last(q) == q[Len(q)]

IsPrefix(a, b) == Len(a) <= Len(b) /\ SubSeq(b, 1, Len(a)) = a

\* A step that runs reset_session_state on a session already initialised:
\* the selectbox's on_change, or the clear-history button.
ModelChangeStep == pc = "idle" /\ selected_semantic_model_path' # selected_semantic_model_path
ClearButtonStep == pc = "main" /\ trigger.kind = "clear"
ResetStep == ModelChangeStep \/ ClearButtonStep

\* A step in which process_user_input ends, by st.rerun() or by an exception.
CycleEnds == pc = "api" /\ pc' # "api"

\* C1: every cycle of process_user_input leaves messages longer by exactly 2
\* than it found it, and the length of messages decreases only in a reset.
C1_GrowsByTwo ==
    [][/\ CycleEnds => Len(messages') = user_msg_index + 2
       /\ Len(messages') < Len(messages) => ResetStep]_vars

\* C2: after a reply with status < 400, the analyst turn that is appended has
\* the reply's message.content and request_id, and the cycle leaves the
\* notification flag as it was.
C2_SuccessTurn ==
    [][(CycleEnds /\ resp'.status < 400 /\ Len(messages') > Len(messages)) =>
          /\ Last(messages') =
                [role |-> "analyst",
                 content |-> resp'.content.value.message.content,
                 request_id |-> resp'.content.value.request_id]
          /\ fire_API_error_notify' = fire_API_error_notify
          /\ session_keys' = session_keys]_vars

C2_Witness ==
    /\ pc = "main"
    /\ resp.received
    /\ resp.status = 399
    /\ Len(messages) = 4
    /\ Len(Last(messages).content) = 2
    /\ Last(messages).request_id = <<"r", "2">>

\* C3: after a reply with status >= 400, the analyst turn that is appended is
\* one text block containing the status, the request id, the error code and
\* the message of the body, and the notification flag is set; a reply takes
\* this path exactly if its status is >= 400.
C3_ErrorTurn ==
    [][CycleEnds =>
          LET body == resp'.content.value
              turn == Last(messages')
              appended == Len(messages') > Len(messages)
              errorPath == /\ appended
                           /\ Len(turn.content) = 1
                           /\ turn.content[1].type = "text"
                           /\ Contains(turn.content[1].text, <<ToString(resp'.status)>>)
                           /\ Contains(turn.content[1].text, body.request_id)
                           /\ Contains(turn.content[1].text, body.error_code)
                           /\ Contains(turn.content[1].text, body.message.str)
                           /\ turn.request_id = body.request_id
                           /\ "fire_API_error_notify" \in session_keys'
                           /\ fire_API_error_notify'
          IN /\ (appended /\ resp'.status >= 400) => errorPath
             /\ (appended /\ resp'.status < 400) =>
                    /\ turn.content = body.message.content
                    /\ fire_API_error_notify' = fire_API_error_notify
             /\ (resp'.status >= 400 /\ resp'.content.json /\ body \in ErrorBodies)
                    => appended]_vars

C3_Witness ==
    /\ pc = "main"
    /\ resp.received
    /\ resp.status = 400
    /\ fire_API_error_notify
    /\ Len(messages) = 2
    /\ Len(Last(messages).content) = 1
    /\ Contains(Last(messages).content[1].text, <<"400">>)

\* C4: whatever the analyst API replies, process_user_input ends its cycle by
\* appending an analyst turn, and no exception leaves it.
C4_NoExceptionEscapes ==
    [][CycleEnds =>
          /\ exception' = "none"
          /\ Len(messages') = Len(messages) + 1
          /\ Last(messages').role = "analyst"]_vars

\* C5: reset_session_state applied twice to the session gives what applying
\* it once gives: messages empty and no active suggestion.
C5_ResetIdempotent ==
    LET once == reset_session_state(Session)
        twice == reset_session_state(once)
    IN /\ twice = once
       /\ once.messages = <<>>
       /\ once.active_suggestion = None

C5_Witness ==
    /\ pc = "inputs"
    /\ active_suggestion # None
    /\ Len(messages) = 2
    /\ reset_session_state(Session) # Session

\* C6: a change of the selected semantic model and a click on the
\* clear-history button each leave messages empty and the active suggestion
\* absent, whatever they were.
C6_ResetEvents ==
    [][ResetStep => /\ messages' = <<>>
                    /\ active_suggestion' = None]_vars

C6_Witness ==
    /\ pc = "seed"
    /\ trigger.kind = "clear"
    /\ messages = <<>>
    /\ active_suggestion = None
    /\ selected_semantic_model_path = AVAILABLE_SEMANTIC_MODELS_PATHS[2]

\* C7: in every step other than a reset, the old messages is a prefix of the
\* new messages.
C7_AppendOnly ==
    [][~ResetStep => IsPrefix(messages, messages')]_vars

C7_Witness ==
    /\ Len(messages) = 4
    /\ messages[1].role = "user"
    /\ messages[2].role = "analyst"
    /\ messages[3] # messages[1]
    /\ messages[4] # messages[2]

\* C8: a cycle for text t appends the user turn <<Text(t)>> before the API is
\* called, calls the API with messages including that turn and with the
\* selected semantic model, and then appends one analyst turn right after
\* the user turn.
C8_OneUserThenOneAnalyst ==
    /\ [](pc = "api" =>
            /\ Len(messages) = user_msg_index + 1
            /\ Last(messages) = [role |-> "user", content |-> <<Text(prompt[1])>>]
            /\ request.sent
            /\ request.messages = messages
            /\ request.semantic_model_file = <<"@">> \o selected_semantic_model_path)
    /\ [][CycleEnds =>
            /\ Len(messages') = Len(messages) + 1
            /\ SubSeq(messages', 1, Len(messages)) = messages
            /\ Last(messages').role = "analyst"]_vars
    /\ [](\A i \in 1..Len(messages) :
            messages[i].role = "user" =>
                IF i < Len(messages) THEN messages[i + 1].role = "analyst"
                ELSE pc = "api")

\* C9: the active suggestion is present only between the click's rendering
\* and handle_user_inputs, where it holds the label of the clicked button;
\* handle_user_inputs clears it and appends a user turn with exactly that
\* text.
C9_OneSlotMailbox ==
    /\ [](active_suggestion # None =>
            /\ pc = "inputs"
            /\ trigger.kind = "suggestion"
            /\ \E b \in SuggestionButtons(messages) :
                    /\ trigger.key = <<b.mi, b.si>>
                    /\ active_suggestion = Some(b.text))
    /\ [][(pc = "display" /\ trigger.kind = "suggestion") =>
                active_suggestion' # None]_vars
    /\ [][(pc = "inputs" /\ active_suggestion # None) =>
            /\ active_suggestion' = None
            /\ pc' = "api"
            /\ messages' = Append(messages,
                    [role |-> "user", content |-> <<Text(active_suggestion[1])>>])]_vars

C9_Witness ==
    /\ pc = "api"
    /\ trigger.kind = "suggestion"
    /\ active_suggestion = None
    /\ Last(messages).content = <<Text(<<"s2">>)>>

\* C10: a run of main that finds messages empty appends the bootstrap user
\* turn, calls the API once, and appends one analyst turn, which leaves
\* messages with length 2.
C10_Bootstrap ==
    /\ [][(pc = "seed" /\ messages = <<>>) =>
            /\ messages' = <<[role |-> "user", content |-> <<Text(BootstrapPrompt)>>]>>
            /\ request'.sent
            /\ pc' = "api"]_vars
    /\ [][(CycleEnds /\ user_msg_index = 0) =>
            /\ Len(messages') = 2
            /\ messages'[2].role = "analyst"]_vars


IsErrorTurn(turn) ==
    /\ turn.role = "analyst"
    /\ Len(turn.content) = 1
    /\ turn.content[1].type = "text"
    /\ Contains(turn.content[1].text, <<"An Analyst API error has occurred">>)

Views == Range(rendered.sql)

\* C13: the engine runs each statement text at most once; a result, table or
\* error, once in the memo stays as it is, and every call for the statement
\* returns it.
C13_Memoized ==
    /\ [](/\ \A i, j \in 1..Len(engine_calls) : i # j => engine_calls[i] # engine_calls[j]
          /\ Range(engine_calls) = DOMAIN cache
          /\ \A v \in Views : /\ v.statement \in DOMAIN cache
                              /\ v.result = cache[v.statement])
    /\ [][\A q \in DOMAIN cache : q \in DOMAIN cache' /\ cache'[q] = cache[q]]_vars

\* The statement is shown in two messages by a run later than the one that
\* executed it, and the engine has run it once.
C13_Witness ==
    /\ pc = "idle"
    /\ Len(rendered.sql) = 2
    /\ rendered.sql[1].statement = rendered.sql[2].statement
    /\ rendered.sql[1].result = rendered.sql[2].result
    /\ rendered.sql[1].result.df # None
    /\ Len(engine_calls) = 1

\* C14: a result is (table, no error) or (no table, the engine's error text);
\* for the latter the error is shown without table view or chart view, and
\* showing the conversation leaves messages as it is.
C14_TwoShapes ==
    /\ [](/\ \A q \in DOMAIN cache :
                \/ cache[q].df # None /\ cache[q].err_msg = None
                \/ /\ cache[q].df = None
                   /\ cache[q].err_msg \in {Some(o.error) : o \in {e \in EngineOutcomes : ~e.ok}}
          /\ \A v \in Views :
                v.result.err_msg # None =>
                    /\ v.view.kind = "error"
                    /\ Contains(v.view.text, v.result.err_msg[1])
                    /\ DOMAIN v.view \cap {"data_tab", "chart_tab"} = {})
    /\ [][pc = "display" => messages' = messages]_vars

C14_Witness ==
    /\ pc = "idle"
    /\ Len(rendered.sql) = 1
    /\ rendered.sql[1].result.df = None
    /\ rendered.sql[1].view.kind = "error"
    /\ Len(messages) = 4

\* C15: a chart tab for fewer than 2 columns shows the notice and no axis
\* selection; for 2 or more columns X is offered the columns, Y the columns
\* other than the X selected, and the selected X and Y differ.
C15_ChartAxes ==
    \A v \in Views :
        v.view.kind = "tabs" =>
            LET cols == Range(v.view.data_tab.columns)
                chart == v.view.chart_tab
            IN IF Len(v.view.data_tab.columns) < 2
               THEN /\ chart.kind = "notice"
                    /\ DOMAIN chart \cap {"x_options", "y_options", "x_col", "y_col"} = {}
               ELSE /\ chart.kind = "axes"
                    /\ chart.x_options = cols
                    /\ chart.x_col \in cols
                    /\ chart.y_options = cols \ {chart.x_col}
                    /\ chart.y_col \in chart.y_options
                    /\ chart.y_col # chart.x_col

C15_Witness ==
    /\ Len(rendered.sql) = 1
    /\ rendered.sql[1].view.kind = "tabs"
    /\ Len(rendered.sql[1].view.data_tab.columns) = 3
    /\ rendered.sql[1].view.chart_tab.kind = "axes"
    /\ rendered.sql[1].view.chart_tab.x_col = <<"c", "2">>
    /\ rendered.sql[1].view.chart_tab.y_options = {<<"c", "1">>, <<"c", "3">>}

\* C16: for a SQL block whose execution succeeds with no rows, the notice
\* "Query returned no data" is shown, without table tab or chart tab.
C16_NoData ==
    \A v \in Views :
        (v.result.df # None /\ v.result.df[1].rows = 0) =>
            /\ v.view.kind = "nodata"
            /\ v.view.text = "Query returned no data"
            /\ DOMAIN v.view \cap {"data_tab", "chart_tab"} = {}

C16_Witness ==
    /\ pc = "idle"
    /\ Len(rendered.sql) = 1
    /\ rendered.sql[1].result.df # None
    /\ rendered.sql[1].result.err_msg = None
    /\ rendered.sql[1].result.df[1].rows = 0
    /\ rendered.sql[1].view.kind = "nodata"
    /\ messages[rendered.sql[1].mi + 1].role = "analyst"


\* C17: a cycle sends one request when it starts and none when the reply
\* arrives, whatever the status, so the requests sent are as many as the
\* inputs processed.
C17_NoRetry ==
    /\ [](api_requests = inputs_processed)
    /\ [](pc = "api" => request.sent)
    /\ [][/\ (pc # "api" /\ pc' = "api") =>
                /\ api_requests' = api_requests + 1
                /\ inputs_processed' = inputs_processed + 1
          /\ pc = "api" =>
                /\ api_requests' = api_requests
                /\ pc' # "api"
                /\ ~request'.sent
          /\ (pc' # "api") => api_requests' = api_requests]_vars

\* Two inputs were processed, the first answered by an error status, and two
\* requests were sent.
C17_Witness ==
    /\ pc = "main"
    /\ Len(messages) = 4
    /\ IsErrorTurn(messages[2])
    /\ resp.received
    /\ resp.status = 500
    /\ api_requests = 2
    /\ inputs_processed = 2


\* C19: every analyst turn in messages was produced by a request made with
\* the semantic model that is selected now.
C19_OneModelPerConversation ==
    /\ Len(answered_with) = Len(messages)
    /\ \A i \in 1..Len(messages) :
            messages[i].role = "analyst" =>
                answered_with[i] = Some(<<"@">> \o selected_semantic_model_path)

\* The second model was selected after a conversation with the first, and
\* the conversation shown holds an exchange answered with the second.
C19_Witness ==
    /\ pc = "idle"
    /\ selected_semantic_model_path = AVAILABLE_SEMANTIC_MODELS_PATHS[2]
    /\ Len(messages) = 4
    /\ messages[4].role = "analyst"
    /\ answered_with[4] = Some(<<"@">> \o AVAILABLE_SEMANTIC_MODELS_PATHS[2])
    /\ api_requests = 3


\* C20: reset_session_state leaves the selected semantic model and the
\* notification flag of the session as they are, and a reset leaves the
\* memo of executed statements as it is.
C20_ResetFrame ==
    /\ [](LET after == reset_session_state(Session) IN
            /\ after.selected_semantic_model_path = selected_semantic_model_path
            /\ after.fire_API_error_notify = fire_API_error_notify
            /\ session_keys \subseteq after.keys
            /\ after.keys \ session_keys \subseteq {"messages", "active_suggestion"})
    /\ [][ResetStep =>
            /\ fire_API_error_notify' = fire_API_error_notify
            /\ cache' = cache
            /\ engine_calls' = engine_calls
            /\ session_keys \subseteq session_keys'
            /\ ClearButtonStep =>
                    selected_semantic_model_path' = selected_semantic_model_path]_vars

\* Right after a click on the clear-history button: the conversation is
\* empty, the statement executed before is still in the memo.
C20_Witness ==
    /\ pc = "seed"
    /\ trigger.kind = "clear"
    /\ messages = <<>>
    /\ Len(engine_calls) = 1
    /\ DOMAIN cache = {<<"select1">>}
    /\ selected_semantic_model_path = AVAILABLE_SEMANTIC_MODELS_PATHS[2]

\* C18: with well-formed replies, whenever display_conversation is about to
\* run, messages is not empty, has even length, and its roles alternate
\* user, analyst from the first turn on.
C18_RenderedAlternates ==
    pc = "display" =>
        /\ Len(messages) > 0
        /\ Len(messages) % 2 = 0
        /\ \A i \in 1..Len(messages) :
                messages[i].role = IF i % 2 = 1 THEN "user" ELSE "analyst"

\* A conversation was reset and seeded again: the first rendering after the
\* reset shows the bootstrap exchange, never the emptied conversation.
C18_Witness ==
    /\ pc = "display"
    /\ inputs_processed = 3
    /\ Len(messages) = 2
    /\ messages[1].content = <<Text(BootstrapPrompt)>>
    /\ messages[2].role = "analyst"

\* C12: after a failed turn the session keeps its keys and the page its
\* controls; an input submitted next gets its user turn, and a well-formed
\* reply gets its analyst turn, whatever failed before.
C12_SessionSurvives ==
    /\ [](pc # "main" => {"messages", "active_suggestion"} \subseteq session_keys)
    /\ [](pc = "idle" =>
            /\ rendered.sidebar
            /\ (exception = "none" \/ Len(messages) > 1) => rendered.chat)
    /\ [][(pc = "inputs" /\ trigger.kind = "chat") =>
            /\ pc' = "api"
            /\ messages' = Append(messages,
                    [role |-> "user", content |-> <<Text(trigger.text)>>])]_vars
    /\ [][(CycleEnds /\ WellFormed(resp')) =>
            /\ exception' = "none"
            /\ messages' = Append(messages, Last(messages'))
            /\ Last(messages').role = "analyst"]_vars

\* An input whose reply was malformed left its user turn alone; the input
\* submitted after it has its user turn and its analyst turn.
C12_Witness ==
    /\ Len(messages) = 5
    /\ messages[3].role = "user"
    /\ messages[4].role = "user"
    /\ messages[5].role = "analyst"
    /\ exception = "none"

====
